---- MODULE Spec2Model ----
(***************************************************************************)
(* Model of the Immich integration for Home Assistant                      *)
(* (custom_components/immich): the API hub (hub.py), the sensor platform   *)
(* (sensor.py) and the user step of the config flow (config_flow.py).      *)
(*                                                                         *)
(* Python strings that the code transforms or compares (person names,      *)
(* sensor keys, host URLs) are sequences of one-character strings, so that *)
(* lower(), replace(), startswith() and the URL functions are computed.    *)
(* Opaque strings (header names, exception class names, MIME types) are    *)
(* TLA+ strings.                                                           *)
(***************************************************************************)
EXTENDS Integers, Sequences, FiniteSets, TLC

VARIABLES hub, call, flow, entities, server, pos, upd, tasks, hass

vars == <<hub, call, flow, entities, server, pos, upd, tasks, hass>>

(***************************************************************************)
(* Python values                                                           *)
(***************************************************************************)

\* A call that returned v / a call that raised exception class e.
NoVal == [t |-> "none", v |-> <<>>]
Ok(v) == [exc |-> "", val |-> v]
Raise(e) == [exc |-> e, val |-> NoVal]

\* Python None as a value of a tagged union, and the other value shapes.
PyNone == [t |-> "none", v |-> <<>>]
PyInt(n) == [t |-> "int", v |-> n]
PyBool(b) == [t |-> "bool", v |-> b]
PyBytes(b) == [t |-> "bytes", v |-> b]

\* Decoded JSON bodies: an object (a function from field names), a list, or a
\* body that is not JSON at all.
JObj(f) == [t |-> "obj", v |-> f]
JList(s) == [t |-> "list", v |-> s]
BadJson == [t |-> "bad", v |-> <<>>]

\* dict.get(k, d)
DictGet(d, k, default) == IF k \in DOMAIN d THEN d[k] ELSE default

\* The object f restricted to the fields in D (a response that lacks fields).
Restrict(f, D) == [k \in D |-> f[k]]

(***************************************************************************)
(* Characters and strings                                                  *)
(***************************************************************************)
UpperChars == <<"A","B","C","D","E","F","G","H","I","J","K","L","M",
                "N","O","P","Q","R","S","T","U","V","W","X","Y","Z">>
LowerChars == <<"a","b","c","d","e","f","g","h","i","j","k","l","m",
                "n","o","p","q","r","s","t","u","v","w","x","y","z">>

\* str.lower() on one character
LowerChar(c) ==
  IF \E i \in 1..Len(UpperChars) : UpperChars[i] = c
  THEN LowerChars[CHOOSE i \in 1..Len(UpperChars) : UpperChars[i] = c]
  ELSE c

\* str.lower()
StrLower(s) == [i \in 1..Len(s) |-> LowerChar(s[i])]

\* str.replace(a, b) for one-character a and b
StrReplace(s, a, b) == [i \in 1..Len(s) |-> IF s[i] = a THEN b ELSE s[i]]

\* str.startswith(p)
StartsWith(s, p) == Len(s) >= Len(p) /\ SubSeq(s, 1, Len(p)) = p


(***************************************************************************)
(* What one HTTP exchange can yield (aiohttp session.request / session.get) *)
(*   ClientError : the library raises aiohttp.ClientError (DNS, TCP, TLS   *)
(*                 failure, connection refused or reset)                   *)
(*   OtherError  : the library raises an exception that is not a           *)
(*                 ClientError; a total timeout surfaces this way, as      *)
(*                 asyncio.TimeoutError                                    *)
(*   Response    : a response with a status, a content type and a body     *)
(***************************************************************************)
ClientErr == [kind |-> "ClientError", exc |-> "ClientError", status |-> 0,
              ctype |-> "", body |-> BadJson]
TimeoutErr == [kind |-> "OtherError", exc |-> "TimeoutError", status |-> 0,
               ctype |-> "", body |-> BadJson]
Resp(s, c, b) == [kind |-> "Response", exc |-> "", status |-> s, ctype |-> c, body |-> b]

TransportFailures == {ClientErr, TimeoutErr}

\* Statuses the server answers with; a response outside 200..299 carries an
\* error text, not one of the endpoint's bodies.
SuccessStatuses == {200, 201, 204}
ErrorStatuses == {401, 404, 500}
HttpStatuses == SuccessStatuses \cup ErrorStatuses
JsonType == "application/json"
JsonContentTypes == {JsonType, "text/html"}
FileContentTypes == {JsonType, "image/png", "image/jpeg", "application/pdf"}
ErrorText == BadJson

OutcomesOver(ctypes, bodies) ==
  TransportFailures \cup
  {Resp(s, c, b) : s \in SuccessStatuses, c \in ctypes, b \in bodies} \cup
  {Resp(s, c, ErrorText) : s \in ErrorStatuses, c \in ctypes}

\* The outcomes of an exchange with a JSON endpoint whose bodies are `bodies`
Outcomes(bodies) == OutcomesOver(JsonContentTypes, bodies)

Is2xx(s) == s >= 200 /\ s <= 299

(***************************************************************************)
(* hub.py                                                                  *)
(***************************************************************************)
_HEADER_API_KEY == "x-api-key"
_ALLOWED_MIME_TYPES == {"image/png", "image/jpeg"}

\* BaseAPIClient.__init__
BaseAPIClient(host, api_key) ==
  [host |-> host, api_key |-> api_key,
   headers |-> ("Accept" :> "application/json") @@ (_HEADER_API_KEY :> api_key)]

\* One issued request, as the server sees it. id is 0 for a path without one.
Request(method, path, id, headers, params, json_data) ==
  [method |-> method, path |-> path, id |-> id, headers |-> headers,
   params |-> params, json |-> json_data]

NoParams == [k \in {} |-> ""]

\* response.json(): aiohttp raises ContentTypeError (a ClientError) when the
\* content type is not application/json, and json.JSONDecodeError (a ValueError)
\* when the body does not decode.
ResponseJson(o) ==
  IF o.ctype # JsonType THEN Raise("ClientError")
  ELSE IF o.body.t = "bad" THEN Raise("ValueError")
  ELSE Ok(o.body)

\* _make_request accepting every status in 200..299 (C2's mutant)
make_request_result_any2xx(o) ==
  IF o.kind = "ClientError" THEN Raise("CannotConnect")
  ELSE IF o.kind = "OtherError" THEN Raise(o.exc)
  ELSE IF ~Is2xx(o.status) THEN Raise("ApiError")
  ELSE LET j == ResponseJson(o)
       IN  IF j.exc = "ClientError" THEN Raise("CannotConnect") ELSE j

\* _make_request without its "except aiohttp.ClientError" clause (C3's mutant)
make_request_result_unwrapped(o) ==
  IF o.kind # "Response" THEN Raise(o.exc)
  ELSE IF o.status # 200 THEN Raise("ApiError")
  ELSE ResponseJson(o)

\* BaseAPIClient._make_request: the result of the call for exchange outcome o.
make_request_result(o) ==
  IF o.kind = "ClientError" THEN Raise("CannotConnect")
  ELSE IF o.kind = "OtherError" THEN Raise(o.exc)
  ELSE IF o.status # 200 THEN Raise("ApiError")
  ELSE LET j == ResponseJson(o)
       IN  IF j.exc = "ClientError" THEN Raise("CannotConnect") ELSE j

\* _make_request sending no API key (C10's mutant)
make_request_req_nokey(self, method, path, id, params, json_data) ==
  Request(method, path, id, ("Accept" :> "application/json"), params, json_data)

\* BaseAPIClient._make_request: the request it issues.
make_request_req(self, method, path, id, params, json_data) ==
  Request(method, path, id, self.headers, params, json_data)

\* The record of one hub operation: what it raised or returned, the requests it
\* issued, and what the shared primitive raised ("n/a" when it was not used).
OpResult(res, reqs, prim) ==
  [exc |-> res.exc, val |-> res.val, reqs |-> reqs, prim |-> prim]

\* ImmichHub.authenticate
authenticate(self, o) ==
  LET r == make_request_result(o)
      q == <<make_request_req(self, "POST", "/api/auth/validateToken", 0, NoParams, PyNone)>>
  IN  IF r.exc # "" THEN OpResult(Raise(r.exc), q, r.exc)
      ELSE IF r.val.t # "obj" THEN OpResult(Raise("AttributeError"), q, r.exc)
      ELSE OpResult(Ok(PyBool(DictGet(r.val.v, "authStatus", FALSE))), q, r.exc)

\* ImmichHub.get_my_user_info
get_my_user_info(self, o) ==
  LET r == make_request_result(o)
      q == <<make_request_req(self, "GET", "/api/users/me", 0, NoParams, PyNone)>>
  IN  OpResult(r, q, r.exc)

\* ImmichHub.get_asset_info
get_asset_info(self, asset_id, o) ==
  LET r == make_request_result(o)
      q == <<make_request_req(self, "GET", "/api/assets/{id}", asset_id, NoParams, PyNone)>>
  IN  IF r.exc # "" THEN OpResult(Ok(PyNone), q, r.exc)
      ELSE OpResult(r, q, r.exc)

\* download_asset without the content-type check (C5's mutant)
download_asset_anytype(self, asset_id, o) ==
  LET q == <<Request("GET", "/api/assets/{id}/original", asset_id,
                     (_HEADER_API_KEY :> self.api_key), NoParams, PyNone)>>
  IN  IF o.kind = "ClientError" THEN OpResult(Raise("CannotConnect"), q, "n/a")
      ELSE IF o.kind = "OtherError" THEN OpResult(Raise(o.exc), q, "n/a")
      ELSE IF o.status # 200 THEN OpResult(Ok(PyNone), q, "n/a")
      ELSE OpResult(Ok(PyBytes(o.body.v)), q, "n/a")

\* ImmichHub.download_asset
download_asset(self, asset_id, o) ==
  LET q == <<Request("GET", "/api/assets/{id}/original", asset_id,
                     (_HEADER_API_KEY :> self.api_key), NoParams, PyNone)>>
  IN  IF o.kind = "ClientError" THEN OpResult(Raise("CannotConnect"), q, "n/a")
      ELSE IF o.kind = "OtherError" THEN OpResult(Raise(o.exc), q, "n/a")
      ELSE IF o.status # 200 THEN OpResult(Ok(PyNone), q, "n/a")
      ELSE IF o.ctype \notin _ALLOWED_MIME_TYPES THEN OpResult(Ok(PyNone), q, "n/a")
      ELSE OpResult(Ok(PyBytes(o.body.v)), q, "n/a")

\* [asset for asset in items if asset["type"] == "IMAGE"]
ImagesOf(items) == SelectSeq(items, LAMBDA asset : asset.type = "IMAGE")

\* ImmichHub.list_favorite_images
list_favorite_images(self, o) ==
  LET r == make_request_result(o)
      q == <<make_request_req(self, "POST", "/api/search/metadata", 0, NoParams,
                              JObj([isFavorite |-> "true"]))>>
  IN  IF r.exc # "" THEN OpResult(Raise(r.exc), q, r.exc)
      ELSE IF r.val.t # "obj" THEN OpResult(Raise("TypeError"), q, r.exc)
      ELSE IF "assets" \notin DOMAIN r.val.v THEN OpResult(Raise("KeyError"), q, r.exc)
      ELSE IF "items" \notin DOMAIN r.val.v["assets"] THEN OpResult(Raise("KeyError"), q, r.exc)
      ELSE OpResult(Ok(JList(ImagesOf(r.val.v["assets"]["items"]))), q, r.exc)

\* ImmichHub.list_all_albums
list_all_albums(self, o) ==
  LET r == make_request_result(o)
      q == <<make_request_req(self, "GET", "/api/albums", 0, NoParams, PyNone)>>
  IN  OpResult(r, q, r.exc)

\* list_album_images returning every asset of the album (C12's mutant)
list_album_images_unfiltered(self, album_id, o) ==
  LET r == make_request_result(o)
      q == <<make_request_req(self, "GET", "/api/albums/{id}", album_id, NoParams, PyNone)>>
  IN  IF r.exc # "" THEN OpResult(Raise(r.exc), q, r.exc)
      ELSE IF r.val.t # "obj" THEN OpResult(Raise("TypeError"), q, r.exc)
      ELSE IF "assets" \notin DOMAIN r.val.v THEN OpResult(Raise("KeyError"), q, r.exc)
      ELSE OpResult(Ok(JList(r.val.v["assets"])), q, r.exc)

\* ImmichHub.list_album_images
list_album_images(self, album_id, o) ==
  LET r == make_request_result(o)
      q == <<make_request_req(self, "GET", "/api/albums/{id}", album_id, NoParams, PyNone)>>
  IN  IF r.exc # "" THEN OpResult(Raise(r.exc), q, r.exc)
      ELSE IF r.val.t # "obj" THEN OpResult(Raise("TypeError"), q, r.exc)
      ELSE IF "assets" \notin DOMAIN r.val.v THEN OpResult(Raise("KeyError"), q, r.exc)
      ELSE OpResult(Ok(JList(ImagesOf(r.val.v["assets"]))), q, r.exc)

\* The AssetStatistics dataclass
AssetStatistics(images, videos, total) ==
  [t |-> "AssetStatistics", v |-> [images |-> images, videos |-> videos, total |-> total]]

\* get_asset_statistics computing total as images + videos (C9's mutant)
get_asset_statistics_summed(self, o) ==
  LET r == make_request_result(o)
      q == <<make_request_req(self, "GET", "/api/assets/statistics", 0, NoParams, PyNone)>>
  IN  IF r.exc # "" THEN OpResult(Raise(r.exc), q, r.exc)
      ELSE IF r.val.t # "obj" THEN OpResult(Raise("AttributeError"), q, r.exc)
      ELSE OpResult(Ok(AssetStatistics(DictGet(r.val.v, "images", 0),
                                       DictGet(r.val.v, "videos", 0),
                                       DictGet(r.val.v, "images", 0)
                                         + DictGet(r.val.v, "videos", 0))), q, r.exc)

\* ImmichHub.get_asset_statistics
get_asset_statistics(self, o) ==
  LET r == make_request_result(o)
      q == <<make_request_req(self, "GET", "/api/assets/statistics", 0, NoParams, PyNone)>>
  IN  IF r.exc # "" THEN OpResult(Raise(r.exc), q, r.exc)
      ELSE IF r.val.t # "obj" THEN OpResult(Raise("AttributeError"), q, r.exc)
      ELSE OpResult(Ok(AssetStatistics(DictGet(r.val.v, "images", 0),
                                       DictGet(r.val.v, "videos", 0),
                                       DictGet(r.val.v, "total", 0))), q, r.exc)

\* ImmichHub.get_favorite_statistics
get_favorite_statistics(self, o) ==
  LET r == make_request_result(o)
      q == <<make_request_req(self, "GET", "/api/assets/statistics", 0,
                              [isFavorite |-> "true"], PyNone)>>
  IN  OpResult(r, q, r.exc)

\* ImmichHub.get_people
get_people(self, o) ==
  LET r == make_request_result(o)
      q == <<make_request_req(self, "GET", "/api/people", 0, NoParams, PyNone)>>
  IN  IF r.exc # "" THEN OpResult(Raise(r.exc), q, r.exc)
      ELSE IF r.val.t # "obj" THEN OpResult(Raise("AttributeError"), q, r.exc)
      ELSE OpResult(Ok(JObj([people |-> DictGet(r.val.v, "people", <<>>),
                             total |-> DictGet(r.val.v, "total", 0),
                             hidden |-> DictGet(r.val.v, "hidden", 0)])), q, r.exc)

\* ImmichHub.get_person_statistics
get_person_statistics(self, person_id, o) ==
  LET r == make_request_result(o)
      q == <<make_request_req(self, "GET", "/api/people/{id}/statistics", person_id,
                              NoParams, PyNone)>>
  IN  OpResult(r, q, r.exc)


(***************************************************************************)
(* Inputs: the server's answers, per endpoint                              *)
(***************************************************************************)
JaneDoe == <<"J","a","n","e"," ","D","o","e">>
JohnRoe == <<"J","o","h","n"," ","R","o","e">>
JaneDoeUpper == <<"J","A","N","E"," ","D","O","E">>
JaneUnderscore == <<"J","a","n","e","_","D","o","e">>
EmptyName == <<>>

\* POST /api/auth/validateToken
AuthBodies ==
  {JObj([authStatus |-> TRUE]), JObj([authStatus |-> FALSE]),
   JObj(Restrict([authStatus |-> TRUE], {})), JList(<<>>), BadJson}

\* GET /api/users/me
UserBodies ==
  {JObj([name |-> "alice", email |-> "alice@example.org"]),
   JObj([email |-> "alice@example.org"]), JList(<<>>), BadJson}

\* Assets, as the album and search endpoints list them
Image(i) == [id |-> i, type |-> "IMAGE"]
Video(i) == [id |-> i, type |-> "VIDEO"]
AssetLists ==
  {<<>>, <<Image(1)>>, <<Video(1)>>, <<Image(1), Video(2), Image(3)>>,
   <<Video(2), Image(3), Image(1)>>}

\* GET /api/assets/{id}
AssetBodies == {JObj(Image(1)), JObj(Video(2)), BadJson}

\* GET /api/assets/{id}/original
FileBodies == {PyBytes("original-1"), PyBytes("original-2")}

\* POST /api/search/metadata
SearchBodies ==
  {JObj([assets |-> [items |-> l]]) : l \in AssetLists} \cup
  {JObj([albums |-> <<>>]), JList(<<>>), BadJson}

\* GET /api/albums
AlbumsBodies ==
  {JList(<<>>), JList(<<[id |-> 1, albumName |-> "Holidays"]>>), BadJson}

\* GET /api/albums/{id}
AlbumBodies ==
  {JObj([id |-> 1, assets |-> l]) : l \in AssetLists} \cup
  {JObj([id |-> 1]), JList(<<>>), BadJson}

\* GET /api/assets/statistics, with or without isFavorite=true
StatsFields == {"images", "videos", "total"}
StatsValues ==
  {[images |-> 120, videos |-> 8, total |-> 130],
   [images |-> 0, videos |-> 3, total |-> 3]}
StatsBodies ==
  {JObj(Restrict(f, D)) : f \in StatsValues, D \in SUBSET StatsFields} \cup
  {JList(<<>>), BadJson}

\* GET /api/people
Person(i, name) == [id |-> i, name |-> name]
Nameless(i) == [id |-> i]
PeopleFields == {"people", "total", "hidden"}
PeopleValues ==
  {[people |-> <<Person(1, JaneDoe), Person(2, JohnRoe)>>, total |-> 2, hidden |-> 0],
   [people |-> <<Nameless(3), Person(1, JaneDoeUpper)>>, total |-> 5, hidden |-> 3]}
PeopleBodies ==
  {JObj(Restrict(f, D)) : f \in PeopleValues, D \in SUBSET PeopleFields} \cup
  {JList(<<>>), BadJson}

\* GET /api/people/{id}/statistics
PersonStatsBodies ==
  {JObj([assets |-> 7]), JObj([assets |-> 0]), JObj(Restrict([assets |-> 7], {})),
   JList(<<>>), BadJson}

AssetIds == {1, 2}
AlbumIds == {1, 2}
PersonIds == {1, 2, 3}

(***************************************************************************)
(* State                                                                   *)
(*   hub      : the client of the hub-level calls (host, api_key, headers) *)
(*   call     : the last hub operation: its name, argument, the exchange   *)
(*              outcome it met and its result                              *)
(*   flow     : the result of the last user step of the config flow        *)
(*   entities : the sensors the sensor platform registered                 *)
(*   server   : what the server answers during the current tick            *)
(*   pos      : the number of sensors refreshed in the current tick        *)
(*   upd      : the record of the last sensor refresh; logged is the       *)
(*              exception sensor setup caught and logged ("" when none)    *)
(*   tasks    : the refreshes in flight when the platform runs the         *)
(*              refreshes of a tick concurrently, one per sensor           *)
(***************************************************************************)
ConfiguredHost ==
  <<"h","t","t","p","s",":","/","/","n","a","s",".","l","o","c","a","l","/">>
ApiKeys == {"key-1", "key-2"}

NoCall == [op |-> "none", arg |-> 0, o |-> ClientErr,
           r |-> OpResult(Ok(PyNone), <<>>, "n/a"), again |-> FALSE]

\* The record of a call; again tells that the call before it was the same
\* operation with the same argument, answered the same way by the server.
Called(op, arg, o, r) ==
  [op |-> op, arg |-> arg, o |-> o, r |-> r,
   again |-> (call.op = op /\ call.arg = arg /\ call.o = o)]

InitHub == hub \in {BaseAPIClient(ConfiguredHost, k) : k \in ApiKeys}
InitCall == call = NoCall

(***************************************************************************)
(* The hub's operations, each against every outcome of its exchange        *)
(***************************************************************************)
OthersUnchangedByCall == UNCHANGED <<hass, hub, flow, entities, server, pos, upd, tasks>>

\* authenticate() forgetting the API key once it has been validated (C11's mutant)
Authenticate_forgetful ==
  \E o \in Outcomes(AuthBodies) :
    /\ call' = Called("authenticate", 0, o, authenticate(hub, o))
    /\ hub' = [hub EXCEPT !.api_key = "", !.headers = ("Accept" :> "application/json")]
    /\ UNCHANGED <<hass, flow, entities, server, pos, upd, tasks>>

Authenticate ==
  \E o \in Outcomes(AuthBodies) :
    /\ call' = Called("authenticate", 0, o, authenticate(hub, o))
    /\ OthersUnchangedByCall

GetMyUserInfo ==
  \E o \in Outcomes(UserBodies) :
    /\ call' = Called("get_my_user_info", 0, o, get_my_user_info(hub, o))
    /\ OthersUnchangedByCall

GetAssetInfo ==
  \E o \in Outcomes(AssetBodies), id \in AssetIds :
    /\ call' = Called("get_asset_info", id, o, get_asset_info(hub, id, o))
    /\ OthersUnchangedByCall

DownloadAsset ==
  \E o \in OutcomesOver(FileContentTypes, FileBodies), id \in AssetIds :
    /\ call' = Called("download_asset", id, o, download_asset(hub, id, o))
    /\ OthersUnchangedByCall

ListFavoriteImages ==
  \E o \in Outcomes(SearchBodies) :
    /\ call' = Called("list_favorite_images", 0, o, list_favorite_images(hub, o))
    /\ OthersUnchangedByCall

ListAllAlbums ==
  \E o \in Outcomes(AlbumsBodies) :
    /\ call' = Called("list_all_albums", 0, o, list_all_albums(hub, o))
    /\ OthersUnchangedByCall

ListAlbumImages ==
  \E o \in Outcomes(AlbumBodies), id \in AlbumIds :
    /\ call' = Called("list_album_images", id, o, list_album_images(hub, id, o))
    /\ OthersUnchangedByCall

GetAssetStatistics ==
  \E o \in Outcomes(StatsBodies) :
    /\ call' = Called("get_asset_statistics", 0, o, get_asset_statistics(hub, o))
    /\ OthersUnchangedByCall

GetFavoriteStatistics ==
  \E o \in Outcomes(StatsBodies) :
    /\ call' = Called("get_favorite_statistics", 0, o, get_favorite_statistics(hub, o))
    /\ OthersUnchangedByCall

GetPeople ==
  \E o \in Outcomes(PeopleBodies) :
    /\ call' = Called("get_people", 0, o, get_people(hub, o))
    /\ OthersUnchangedByCall

GetPersonStatistics ==
  \E o \in Outcomes(PersonStatsBodies), id \in PersonIds :
    /\ call' = Called("get_person_statistics", id, o, get_person_statistics(hub, id, o))
    /\ OthersUnchangedByCall

NextClient ==
  \/ Authenticate
  \/ GetMyUserInfo
  \/ GetAssetInfo
  \/ DownloadAsset
  \/ ListFavoriteImages
  \/ ListAllAlbums
  \/ ListAlbumImages
  \/ GetAssetStatistics
  \/ GetFavoriteStatistics
  \/ GetPeople
  \/ GetPersonStatistics


(***************************************************************************)
(* config_flow.py: URL handling                                            *)
(* url_normalize() and urlparse() are library functions; they are computed *)
(* here for host strings without user info, query or fragment.             *)
(***************************************************************************)
Digits == {"0","1","2","3","4","5","6","7","8","9"}
Letters == {UpperChars[i] : i \in 1..Len(UpperChars)} \cup
           {LowerChars[i] : i \in 1..Len(LowerChars)}
SchemeChars == Letters \cup Digits \cup {"+", "-", "."}

\* str.find(c) + 1: the first position of a character of cs in s, or 0
FindAny(s, cs) ==
  IF \E i \in 1..Len(s) : s[i] \in cs
  THEN CHOOSE i \in 1..Len(s) : s[i] \in cs /\ \A k \in 1..(i - 1) : s[k] \notin cs
  ELSE 0

\* urlsplit, last step: the netloc ends at the first "/", "?" or "#" (at d)
CutNetloc(scheme, after, d) ==
  IF d = 0 THEN [scheme |-> scheme, netloc |-> after, path |-> <<>>]
  ELSE [scheme |-> scheme, netloc |-> SubSeq(after, 1, d - 1),
        path |-> SubSeq(after, d, Len(after))]

\* urlsplit, second step: what follows the scheme has a netloc when it starts "//"
SplitNetloc(scheme, rest) ==
  IF StartsWith(rest, <<"/","/">>)
  THEN CutNetloc(scheme, SubSeq(rest, 3, Len(rest)),
                 FindAny(SubSeq(rest, 3, Len(rest)), {"/", "?", "#"}))
  ELSE [scheme |-> scheme, netloc |-> <<>>, path |-> rest]

\* urlsplit, first step: the text before the first ":" (at i) is the scheme when
\* it starts with a letter and holds scheme characters only
SplitScheme(url, i) ==
  IF i > 1 /\ url[1] \in Letters /\ \A k \in 1..(i - 1) : url[k] \in SchemeChars
  THEN SplitNetloc(StrLower(SubSeq(url, 1, i - 1)), SubSeq(url, i + 1, Len(url)))
  ELSE SplitNetloc(<<>>, url)

\* urllib.parse.urlsplit: scheme, netloc and the rest (the path)
UrlSplit(url) == SplitScheme(url, FindAny(url, {":"}))

\* urllib.parse.urlparse, the fields validate_input reads
urlparse(url) == UrlSplit(url)

\* ParseResult.hostname: the netloc without its port, lower-cased
Hostname(netloc) ==
  LET c == FindAny(netloc, {":"})
  IN  StrLower(IF c = 0 THEN netloc ELSE SubSeq(netloc, 1, c - 1))

UsesNetloc == {<<"h","t","t","p">>, <<"h","t","t","p","s">>, <<"f","t","p">>,
               <<"f","i","l","e">>}

\* urllib.parse.urlunsplit
UrlUnsplit(scheme, netloc, path) ==
  LET withNet ==
        IF netloc # <<>> \/ (scheme \in UsesNetloc /\ ~StartsWith(path, <<"/","/">>))
        THEN <<"/","/">> \o netloc \o
             (IF path # <<>> /\ path[1] # "/" THEN <<"/">> \o path ELSE path)
        ELSE path
  IN  IF scheme # <<>> THEN scheme \o <<":">> \o withNet ELSE withNet

\* url_normalize.provide_url_scheme, with the default scheme https
provide_url_scheme(url) ==
  LET has_scheme == \E i \in 1..Len(url) : i <= 7 /\ url[i] = ":"
      is_universal_scheme == StartsWith(url, <<"/","/">>)
      is_file_path == url = <<"-">> \/ (StartsWith(url, <<"/">>) /\ ~is_universal_scheme)
  IN  IF url = <<>> \/ has_scheme \/ is_file_path THEN url
      ELSE IF is_universal_scheme THEN <<"h","t","t","p","s",":">> \o url
      ELSE <<"h","t","t","p","s",":","/","/">> \o url

\* url_normalize.normalize_path: an empty path of an http(s), ftp or file URL
\* (or of one without scheme) becomes "/"
normalize_path(path, scheme) ==
  IF path = <<>> /\ scheme \in UsesNetloc \cup {<<>>} THEN <<"/">> ELSE path

\* url_normalize.reconstruct_url of the normalized parts: scheme and host are
\* lower-cased
NormalizeParts(parts) ==
  UrlUnsplit(parts.scheme, StrLower(parts.netloc),
             normalize_path(parts.path, parts.scheme))

\* url_normalize.url_normalize: the empty string is returned as it is; otherwise
\* a missing scheme is provided and the parts are normalized.
url_normalize(url) ==
  IF url = <<>> THEN url
  ELSE NormalizeParts(UrlSplit(provide_url_scheme(url)))

HostEmpty == <<>>
HostBare == <<"n","a","s",".","l","o","c","a","l">>
HostHttpUpper == <<"H","T","T","P",":","/","/","N","A","S",".","l","o","c","a","l">>
HostSchemeOnly == <<"h","t","t","p",":","/","/">>
HostPath == <<"/","p","h","o","t","o","s">>
HostUniversal == <<"/","/","n","a","s",".","l","o","c","a","l">>
HostBarePort == <<"n","a","s",":","2","2","8","3">>
HostFull == <<"h","t","t","p","s",":","/","/","n","a","s",".","l","o","c","a","l",
              ":","2","2","8","3","/">>

\* The host strings a user may type
Hosts == {HostEmpty, HostBare, HostHttpUpper, HostSchemeOnly, HostPath,
          HostUniversal, HostBarePort, HostFull}

(***************************************************************************)
(* config_flow.py: validate_input and ConfigFlow.async_step_user           *)
(***************************************************************************)
\* The exchanges of the setup step
FlowOutcomes(bodies) ==
  TransportFailures \cup
  {Resp(200, JsonType, b) : b \in bodies} \cup
  {Resp(st, JsonType, ErrorText) : st \in {401, 500}}

\* What validate_input did: the exception it raised or the value it returned,
\* the requests issued and the number of ImmichHub objects constructed.
Validated(res, reqs, hubs) ==
  [exc |-> res.exc, val |-> res.val, reqs |-> reqs, hubs |-> hubs]

\* validate_input, after authenticate() returned true: the user-info call u
ValidateUser(url, parsed_url, api_key, reqs, u) ==
  IF u.exc # "" THEN Validated(Raise(u.exc), reqs \o u.reqs, 1)
  ELSE IF u.val.t # "obj" THEN Validated(Raise("AttributeError"), reqs \o u.reqs, 1)
  ELSE Validated(
         Ok([title |-> [username |-> DictGet(u.val.v, "name", "Immich User"),
                        hostname |-> Hostname(parsed_url.netloc)],
             data |-> [host |-> url, api_key |-> api_key]]),
         reqs \o u.reqs, 1)

\* validate_input, after the hub h was constructed: the authenticate() call a
ValidateAuth(url, parsed_url, api_key, h, a, uo) ==
  IF a.exc # "" THEN Validated(Raise(a.exc), a.reqs, 1)
  ELSE IF ~a.val.v THEN Validated(Raise("InvalidAuth"), a.reqs, 1)
  ELSE ValidateUser(url, parsed_url, api_key, a.reqs, get_my_user_info(h, uo))

\* validate_input, once the hub is constructed
ValidateWithHub(url, parsed_url, api_key, h, ao, uo) ==
  ValidateAuth(url, parsed_url, api_key, h, authenticate(h, ao), uo)

\* validate_input checking the URL format only after the hub was constructed and
\* authenticate() was awaited (C8's mutant)
ValidateParsed_checklate(url, parsed_url, api_key, ao, uo) ==
  IF parsed_url.scheme = <<>> \/ parsed_url.netloc = <<>>
  THEN Validated(Raise("ValueError"),
                 authenticate(BaseAPIClient(url, api_key), ao).reqs, 1)
  ELSE ValidateWithHub(url, parsed_url, api_key, BaseAPIClient(url, api_key), ao, uo)

\* validate_input, from the URL-format check on
ValidateParsed(url, parsed_url, api_key, ao, uo) ==
  IF parsed_url.scheme = <<>> \/ parsed_url.netloc = <<>>
  THEN Validated(Raise("ValueError"), <<>>, 0)
  ELSE ValidateWithHub(url, parsed_url, api_key, BaseAPIClient(url, api_key), ao, uo)

\* validate_input, from the normalized url on
ValidateUrl(url, api_key, ao, uo) ==
  ValidateParsed(url, urlparse(url), api_key, ao, uo)

\* validate_input(hass, data), with the outcomes ao and uo of the two exchanges
\* it may make
validate_input(data, ao, uo) ==
  ValidateUrl(url_normalize(data.host), data.api_key, ao, uo)

\* The except clauses of async_step_user, in their order
ErrorFor(exc) ==
  IF exc = "ValueError" THEN "invalid_url"
  ELSE IF exc = "CannotConnect" THEN "cannot_connect"
  ELSE IF exc = "InvalidAuth" THEN "invalid_auth"
  ELSE "unknown"

NoTitle == [username |-> "", hostname |-> <<>>]

\* The result of async_step_user for what validate_input did. ao and uo are kept
\* with the result when the exchange they stand for took place.
StepResult(user_input, info, ao, uo) ==
  [result |-> IF info.exc # "" THEN "form" ELSE "create_entry",
   errors |-> IF info.exc # "" THEN ErrorFor(info.exc) ELSE "",
   title |-> IF info.exc # "" THEN NoTitle ELSE info.val.title,
   submitted |-> TRUE, input |-> user_input, reqs |-> info.reqs,
   hubs |-> info.hubs,
   ao |-> IF Len(info.reqs) >= 1 THEN ao ELSE ClientErr,
   uo |-> IF Len(info.reqs) >= 2 THEN uo ELSE ClientErr]

\* ConfigFlow.async_step_user(user_input) for a submitted form
async_step_user(user_input, ao, uo) ==
  StepResult(user_input, validate_input(user_input, ao, uo), ao, uo)

NoInput == [host |-> <<>>, api_key |-> ""]

\* ConfigFlow.async_step_user(None): the empty form is shown
ShownForm ==
  [result |-> "form", errors |-> "", title |-> NoTitle, submitted |-> FALSE,
   input |-> NoInput, reqs |-> <<>>, hubs |-> 0, ao |-> ClientErr, uo |-> ClientErr]

InitFlow == flow = [ShownForm EXCEPT !.result = "none"]

OthersUnchangedByFlow == UNCHANGED <<hass, hub, call, entities, server, pos, upd, tasks>>

StepUserShow ==
  /\ flow.result = "none"
  /\ flow' = ShownForm
  /\ OthersUnchangedByFlow

StepUserSubmit ==
  /\ flow.result = "form"
  /\ \E host \in Hosts, k \in ApiKeys,
     ao \in FlowOutcomes(AuthBodies), uo \in FlowOutcomes(UserBodies) :
       /\ flow' = async_step_user([host |-> host, api_key |-> k], ao, uo)
       /\ OthersUnchangedByFlow

NextFlow ==
  \/ StepUserShow
  \/ StepUserSubmit


(***************************************************************************)
(* sensor.py                                                               *)
(***************************************************************************)
PyStr(s) == [t |-> "str", v |-> s]

\* SENSORS: the keys of the six static descriptions, in their order
SENSORS ==
  << <<"t","o","t","a","l","_","i","m","a","g","e","s">>,
     <<"t","o","t","a","l","_","v","i","d","e","o","s">>,
     <<"t","o","t","a","l","_","a","s","s","e","t","s">>,
     <<"f","a","v","o","r","i","t","e","_","a","s","s","e","t","s">>,
     <<"t","o","t","a","l","_","p","e","o","p","l","e">>,
     <<"h","i","d","d","e","n","_","p","e","o","p","l","e">> >>

PersonPrefix == <<"p","e","r","s","o","n","_">>
AssetsSuffix == <<"_","a","s","s","e","t","s">>
DomainPrefix == <<"i","m","m","i","c","h","_">>

\* ImmichSensor.__init__
ImmichSensor(key) ==
  [key |-> key, unique_id |-> DomainPrefix \o key, state |-> PyNone,
   original_name |-> PyNone]

\* person.get("name") is truthy: the name is there and not empty
HasName(person) == "name" \in DOMAIN person /\ person["name"] # <<>>

\* The key built from the name as the server spells it (C6's mutant)
PersonKey_raw(name) ==
  PersonPrefix \o StrReplace(name, " ", "_") \o AssetsSuffix

\* The key of a person's description: f"person_{clean_name}_assets"
PersonKey(name) ==
  PersonPrefix \o StrReplace(StrLower(name), " ", "_") \o AssetsSuffix

\* The entity async_setup_entry builds for one named person
PersonSensor(person) ==
  [ImmichSensor(PersonKey(person["name"])) EXCEPT
     !.original_name = PyStr(person["name"])]

\* The loop of async_setup_entry over people_data["people"]
RECURSIVE PersonSensors(_)
PersonSensors(people) ==
  IF people = <<>> THEN <<>>
  ELSE (IF HasName(Head(people)) THEN <<PersonSensor(Head(people))>> ELSE <<>>)
       \o PersonSensors(Tail(people))

\* async_setup_entry without the try around the discovery of persons: the
\* exception of the people fetch leaves the function (C21's mutant)
sensor_async_setup_entry_uncontained(self, o) ==
  LET static == [i \in 1..Len(SENSORS) |-> ImmichSensor(SENSORS[i])]
      people_data == get_people(self, o)
  IN  [entities |-> IF people_data.exc # "" THEN static
                    ELSE static \o PersonSensors(people_data.val.v["people"]),
       reqs |-> people_data.reqs,
       exc |-> people_data.exc,
       logged |-> ""]

\* sensor.async_setup_entry: the entities handed to async_add_entities, the
\* request made, the exception that left the function ("": the except clause
\* catches every exception of the discovery) and the exception it logged, for
\* outcome o of the people exchange
sensor_async_setup_entry(self, o) ==
  LET static == [i \in 1..Len(SENSORS) |-> ImmichSensor(SENSORS[i])]
      people_data == get_people(self, o)
  IN  [entities |-> IF people_data.exc # "" THEN static
                    ELSE static \o PersonSensors(people_data.val.v["people"]),
       reqs |-> people_data.reqs,
       exc |-> "",
       logged |-> people_data.exc]

\* The lookup taking the first person whatever the name (C7's mutant)
FindPerson_first(people, name) == IF people = <<>> THEN 0 ELSE 1

\* The lookup keeping the last person whose name matches (C23's mutant)
FindPerson_last(people, name) ==
  LET matches(i) == StrLower(DictGet(people[i], "name", <<>>)) = StrLower(name)
  IN  IF \E i \in 1..Len(people) : matches(i)
      THEN CHOOSE i \in 1..Len(people) :
             matches(i) /\ \A k \in (i + 1)..Len(people) : ~matches(k)
      ELSE 0

\* next((p for p in people if p.get("name", "").lower() == name.lower()), None):
\* the position of that person, or 0
FindPerson(people, name) ==
  LET matches(i) == StrLower(DictGet(people[i], "name", <<>>)) = StrLower(name)
  IN  IF \E i \in 1..Len(people) : matches(i)
      THEN CHOOSE i \in 1..Len(people) :
             matches(i) /\ \A k \in 1..(i - 1) : ~matches(k)
      ELSE 0

\* What one async_update did: the new _state, the exception that left the
\* method ("" when it returned), and the requests issued.
Updated(state, exc, reqs) == [state |-> state, exc |-> exc, reqs |-> reqs]

\* async_update letting the exception leave the method (C1's mutant)
Contained_reraised(exc, reqs) == Updated(PyNone, exc, reqs)

\* async_update with only its first except clause (C13's mutant)
Contained_classified(exc, reqs) ==
  IF exc \in {"CannotConnect", "InvalidAuth"} THEN Updated(PyNone, "", reqs)
  ELSE Updated(PyNone, exc, reqs)

\* The except clauses of async_update: every exception sets _state to None and
\* is not re-raised.
Contained(exc, reqs) == Updated(PyNone, "", reqs)

\* The branches of async_update that read one field of asset statistics
UpdateFromAssetStatistics(self, srv, field) ==
  LET stats == get_asset_statistics(self, srv.stats)
  IN  IF stats.exc # "" THEN Contained(stats.exc, stats.reqs)
      ELSE Updated(PyInt(stats.val.v[field]), "", stats.reqs)

\* The favorite_assets branch reading stats["total"] (C17's mutant)
UpdateFromFavoriteStatistics_strict(self, srv) ==
  LET stats == get_favorite_statistics(self, srv.fav)
  IN  IF stats.exc # "" THEN Contained(stats.exc, stats.reqs)
      ELSE IF stats.val.t # "obj" THEN Contained("AttributeError", stats.reqs)
      ELSE IF "total" \notin DOMAIN stats.val.v THEN Contained("KeyError", stats.reqs)
      ELSE Updated(PyInt(stats.val.v["total"]), "", stats.reqs)

\* The favorite_assets branch
UpdateFromFavoriteStatistics(self, srv) ==
  LET stats == get_favorite_statistics(self, srv.fav)
  IN  IF stats.exc # "" THEN Contained(stats.exc, stats.reqs)
      ELSE IF stats.val.t # "obj" THEN Contained("AttributeError", stats.reqs)
      ELSE Updated(PyInt(DictGet(stats.val.v, "total", 0)), "", stats.reqs)

\* The total_people and hidden_people branches
UpdateFromPeople(self, srv, field) ==
  LET people_data == get_people(self, srv.people)
  IN  IF people_data.exc # "" THEN Contained(people_data.exc, people_data.reqs)
      ELSE Updated(PyInt(DictGet(people_data.val.v, field, 0)), "", people_data.reqs)

\* The person_ branch asking for the statistics of the id of the first person
\* of the snapshot (C20's mutant)
UpdateFromPerson_firstid(self, srv, original_name) ==
  LET people_data == get_people(self, srv.people)
      people == people_data.val.v["people"]
      i == FindPerson(people, original_name.v)
      stats == get_person_statistics(self, people[1]["id"], srv.pstats[people[1]["id"]])
  IN  IF people_data.exc # "" THEN Contained(people_data.exc, people_data.reqs)
      ELSE IF people # <<>> /\ original_name.t # "str"
        THEN Contained("AttributeError", people_data.reqs)
      ELSE IF i = 0 THEN Updated(PyNone, "", people_data.reqs)
      ELSE IF stats.exc # "" THEN Contained(stats.exc, people_data.reqs \o stats.reqs)
      ELSE IF stats.val.t # "obj"
        THEN Contained("AttributeError", people_data.reqs \o stats.reqs)
      ELSE Updated(PyInt(DictGet(stats.val.v, "assets", 0)), "",
                   people_data.reqs \o stats.reqs)

\* The person_ branch
UpdateFromPerson(self, srv, original_name) ==
  LET people_data == get_people(self, srv.people)
      people == people_data.val.v["people"]
      i == FindPerson(people, original_name.v)
      stats == get_person_statistics(self, people[i]["id"], srv.pstats[people[i]["id"]])
  IN  IF people_data.exc # "" THEN Contained(people_data.exc, people_data.reqs)
      ELSE IF people # <<>> /\ original_name.t # "str"
        THEN Contained("AttributeError", people_data.reqs)
      ELSE IF i = 0 THEN Updated(PyNone, "", people_data.reqs)
      ELSE IF stats.exc # "" THEN Contained(stats.exc, people_data.reqs \o stats.reqs)
      ELSE IF stats.val.t # "obj"
        THEN Contained("AttributeError", people_data.reqs \o stats.reqs)
      ELSE Updated(PyInt(DictGet(stats.val.v, "assets", 0)), "",
                   people_data.reqs \o stats.reqs)

\* async_update fetching only while the sensor holds no value (C14's mutant)
async_update_cached(self, e, srv) ==
  IF e.state # PyNone THEN Updated(e.state, "", <<>>)
  ELSE IF e.key = SENSORS[1] THEN UpdateFromAssetStatistics(self, srv, "images")
  ELSE IF e.key = SENSORS[2] THEN UpdateFromAssetStatistics(self, srv, "videos")
  ELSE IF e.key = SENSORS[3] THEN UpdateFromAssetStatistics(self, srv, "total")
  ELSE IF e.key = SENSORS[4] THEN UpdateFromFavoriteStatistics(self, srv)
  ELSE IF e.key = SENSORS[5] THEN UpdateFromPeople(self, srv, "total")
  ELSE IF e.key = SENSORS[6] THEN UpdateFromPeople(self, srv, "hidden")
  ELSE IF StartsWith(e.key, PersonPrefix) THEN UpdateFromPerson(self, srv, e.original_name)
  ELSE Updated(e.state, "", <<>>)

\* ImmichSensor.async_update of entity e, against the answers srv of the server
async_update(self, e, srv) ==
  IF e.key = SENSORS[1] THEN UpdateFromAssetStatistics(self, srv, "images")
  ELSE IF e.key = SENSORS[2] THEN UpdateFromAssetStatistics(self, srv, "videos")
  ELSE IF e.key = SENSORS[3] THEN UpdateFromAssetStatistics(self, srv, "total")
  ELSE IF e.key = SENSORS[4] THEN UpdateFromFavoriteStatistics(self, srv)
  ELSE IF e.key = SENSORS[5] THEN UpdateFromPeople(self, srv, "total")
  ELSE IF e.key = SENSORS[6] THEN UpdateFromPeople(self, srv, "hidden")
  ELSE IF StartsWith(e.key, PersonPrefix) THEN UpdateFromPerson(self, srv, e.original_name)
  ELSE Updated(e.state, "", <<>>)


(***************************************************************************)
(* The server during sensor setup and polling                              *)
(***************************************************************************)
\* The longest people list the server returns at setup
MaxPeople == 3

\* What the server answers, per endpoint, until it changes; pstats gives the
\* answer of the person-statistics endpoint for each person id
Server(stats, fav, people, pstats) ==
  [stats |-> stats, fav |-> fav, people |-> people, pstats |-> pstats]

JsonOk(f) == Resp(200, JsonType, JObj(f))

\* The same answer for the statistics of every person
Uniform(o) == [id \in PersonIds |-> o]

\* People lists at setup: every list of at most MaxPeople persons, the person at
\* position i having id i and one of these names, or no name at all (choice 0)
SetupNames == <<JaneDoe, JohnRoe, JaneDoeUpper, JaneUnderscore, EmptyName>>
PersonChoice(i, c) == IF c = 0 THEN Nameless(i) ELSE Person(i, SetupNames[c])
SetupLists ==
  UNION {{[i \in 1..n |-> PersonChoice(i, f[i])] : f \in [1..n -> 0..Len(SetupNames)]}
         : n \in 0..MaxPeople}
SetupPeopleOutcomes ==
  TransportFailures \cup
  {Resp(500, JsonType, BadJson), Resp(200, JsonType, BadJson),
   Resp(200, JsonType, JList(<<>>)), JsonOk([total |-> 0, hidden |-> 0])} \cup
  {JsonOk([people |-> l, total |-> Len(l), hidden |-> 0]) : l \in SetupLists}
SetupServers ==
  {Server(ClientErr, ClientErr, o, Uniform(ClientErr)) : o \in SetupPeopleOutcomes}

\* The answers during polling
PollStatsOutcomes ==
  {ClientErr,
   Resp(500, JsonType, ErrorText),
   JsonOk([images |-> 120, videos |-> 8, total |-> 130]),
   JsonOk(Restrict([images |-> 120], {}))}
PollFavOutcomes ==
  {TimeoutErr,
   JsonOk([images |-> 4, videos |-> 1, total |-> 5]),
   JsonOk([images |-> 4, videos |-> 1])}
PollPeopleLists ==
  {<<>>,
   <<Person(1, JaneDoe)>>,
   <<Person(2, JaneDoe)>>,
   <<Person(1, JaneDoeUpper)>>,
   <<Person(1, JohnRoe)>>,
   <<Nameless(1), Person(2, JaneDoe)>>,
   <<Person(1, JaneDoe), Person(2, JaneDoeUpper)>>,
   <<Person(2, JaneDoeUpper), Person(1, JaneDoe)>>}
PollPeopleOutcomes ==
  {ClientErr, Resp(401, JsonType, ErrorText), Resp(200, JsonType, JList(<<>>)),
   JsonOk([people |-> <<Person(1, JaneDoe)>>])} \cup
  {JsonOk([people |-> l, total |-> 5, hidden |-> 3]) : l \in PollPeopleLists}
PollPersonStatsOutcomes ==
  {Uniform(Resp(500, JsonType, ErrorText)),
   [id \in PersonIds |-> JsonOk([assets |-> 5 + 2 * id])],
   Uniform(JsonOk(Restrict([assets |-> 7], {})))}
PollServers ==
  {Server(a, f, p, q) : a \in PollStatsOutcomes, f \in PollFavOutcomes,
                        p \in PollPeopleOutcomes, q \in PollPersonStatsOutcomes}

(***************************************************************************)
(* Sensor setup and the polling ticks                                      *)
(*   SensorSetup : sensor.async_setup_entry                                *)
(*   Update      : async_update of the next sensor of the tick; the        *)
(*                 platform refreshes every sensor once per tick           *)
(*   Tick        : the tick is over; the server may answer differently     *)
(*                 during the next one                                     *)
(***************************************************************************)
NoUpdate ==
  [op |-> "none", idx |-> 0, exc |-> "", reqs |-> <<>>, done |-> 0, logged |-> ""]

InitSensors == entities = <<>> /\ pos = 0 /\ upd = NoUpdate /\ tasks = <<>>

SensorSetup ==
  /\ upd.op = "none"
  /\ LET r == sensor_async_setup_entry(hub, server.people)
     IN  /\ entities' = IF r.exc # "" THEN entities ELSE r.entities
         /\ upd' = [op |-> "setup", idx |-> 0, exc |-> r.exc, reqs |-> r.reqs,
                    done |-> 0, logged |-> r.logged]
  /\ pos' = 0
  /\ UNCHANGED <<hass, hub, call, flow, server, tasks>>

Update ==
  /\ upd.op # "none"
  /\ pos < Len(entities)
  /\ LET e == entities[pos + 1]
         u == async_update(hub, e, server)
     IN  /\ entities' = [entities EXCEPT
                           ![pos + 1].state = IF u.exc # "" THEN e.state ELSE u.state]
         /\ upd' = [op |-> "update", idx |-> pos + 1, exc |-> u.exc, reqs |-> u.reqs,
                    done |-> upd.done + (IF u.exc = "" THEN 1 ELSE 0),
                    logged |-> upd.logged]
  /\ pos' = pos + 1
  /\ UNCHANGED <<hass, hub, call, flow, server, tasks>>

\* A tick that runs the discovery of async_setup_entry again (C18's mutant)
Tick_rediscovering ==
  /\ upd.op # "none"
  /\ pos = Len(entities)
  /\ \E srv \in PollServers :
       /\ server' = srv
       /\ entities' = sensor_async_setup_entry(hub, srv.people).entities
  /\ pos' = 0
  /\ upd' = [op |-> "tick", idx |-> 0, exc |-> "", reqs |-> <<>>, done |-> 0,
             logged |-> upd.logged]
  /\ UNCHANGED <<hass, hub, call, flow, tasks>>

Tick ==
  /\ upd.op # "none"
  /\ pos = Len(entities)
  /\ \E srv \in PollServers : server' = srv
  /\ pos' = 0
  /\ upd' = [op |-> "tick", idx |-> 0, exc |-> "", reqs |-> <<>>, done |-> 0,
             logged |-> upd.logged]
  /\ UNCHANGED <<hass, hub, call, flow, entities, tasks>>

NextSetup == SensorSetup

NextSensor ==
  \/ SensorSetup
  \/ Update
  \/ Tick

(***************************************************************************)
(* The refreshes of a tick run concurrently                                *)
(* The entity platform starts async_update of every sensor of a tick as a  *)
(* task of its own; a task is suspended at each await of a hub call and    *)
(* the tasks resume in any order.                                          *)
(*   ConcurrentSetup : sensor.async_setup_entry                            *)
(*   Begin(i)        : the task of sensor i runs up to its first request   *)
(*   ResumeFirst(i)  : the first answer arrived; the task assigns _state,  *)
(*                     or issues the person-statistics request             *)
(*   ResumeSecond(i) : the person statistics arrived; the task assigns     *)
(*                     _state                                              *)
(*   ConcurrentTick  : every task is over; the next tick starts            *)
(* A task keeps the people answer it received (people), and own is the     *)
(* value the tasks of this sensor assigned last.                           *)
(***************************************************************************)
IdleTask == [pc |-> "idle", people |-> ClientErr, own |-> PyNone]

ConcurrentServers ==
  {Server(a, JsonOk([images |-> 4, videos |-> 1, total |-> 5]), p,
          [id \in PersonIds |-> JsonOk([assets |-> 5 + 2 * id])]) :
     a \in {ClientErr, JsonOk([images |-> 120, videos |-> 8, total |-> 130])},
     p \in {Resp(401, JsonType, ErrorText),
            JsonOk([people |-> <<Person(1, JaneDoe)>>, total |-> 5, hidden |-> 3]),
            JsonOk([people |-> <<Person(2, JohnRoe)>>, total |-> 1, hidden |-> 0])}}

ConcurrentSetup ==
  /\ upd.op = "none"
  /\ LET r == sensor_async_setup_entry(hub, server.people)
     IN  /\ entities' = r.entities
         /\ tasks' = [i \in 1..Len(r.entities) |-> IdleTask]
         /\ upd' = [op |-> "setup", idx |-> 0, exc |-> r.exc, reqs |-> r.reqs,
                    done |-> 0, logged |-> r.logged]
  /\ UNCHANGED <<hass, hub, call, flow, server, pos>>

Begin(i) ==
  /\ upd.op = "setup"
  /\ tasks[i].pc = "idle"
  /\ tasks' = [tasks EXCEPT ![i].pc = "first"]
  /\ UNCHANGED <<hass, hub, call, flow, entities, server, pos, upd>>

\* The task of sensor i assigns self._state and is over
Commit(i, u) ==
  LET state == IF u.exc # "" THEN entities[i].state ELSE u.state
  IN  /\ entities' = [entities EXCEPT ![i].state = state]
      /\ tasks' = [tasks EXCEPT ![i].pc = "done", ![i].own = state]

\* The sensor with a task awaiting its first answer that comes last
LastAwaiting ==
  CHOOSE j \in 1..Len(tasks) :
    /\ tasks[j].pc = "first"
    /\ \A k \in 1..Len(tasks) : tasks[k].pc = "first" => k <= j

\* A task assigning to the sensor a shared cursor points at, not to its own
\* (C19's mutant)
ResumeFirst_shared(i) ==
  /\ tasks[i].pc = "first"
  /\ LET u == async_update(hub, entities[i], server)
     IN  IF Len(u.reqs) = 2
         THEN /\ tasks' = [tasks EXCEPT ![i].pc = "second", ![i].people = server.people]
              /\ UNCHANGED entities
         ELSE /\ entities' = [entities EXCEPT ![LastAwaiting].state = u.state]
              /\ tasks' = [tasks EXCEPT ![i].pc = "done", ![i].own = u.state]
  /\ UNCHANGED <<hass, hub, call, flow, server, pos, upd>>

ResumeFirst(i) ==
  /\ tasks[i].pc = "first"
  /\ LET u == async_update(hub, entities[i], server)
     IN  IF Len(u.reqs) = 2
         THEN /\ tasks' = [tasks EXCEPT ![i].pc = "second", ![i].people = server.people]
              /\ UNCHANGED entities
         ELSE Commit(i, u)
  /\ UNCHANGED <<hass, hub, call, flow, server, pos, upd>>

ResumeSecond(i) ==
  /\ tasks[i].pc = "second"
  /\ Commit(i, async_update(hub, entities[i], [server EXCEPT !.people = tasks[i].people]))
  /\ UNCHANGED <<hass, hub, call, flow, server, pos, upd>>

ConcurrentTick ==
  /\ upd.op = "setup"
  /\ \A i \in 1..Len(tasks) : tasks[i].pc = "done"
  /\ \E srv \in ConcurrentServers : server' = srv
  /\ tasks' = [i \in 1..Len(tasks) |-> [IdleTask EXCEPT !.own = tasks[i].own]]
  /\ UNCHANGED <<hass, hub, call, flow, entities, pos, upd>>

NextConcurrent ==
  \/ ConcurrentSetup
  \/ \E i \in 1..Len(tasks) : Begin(i)
  \/ \E i \in 1..Len(tasks) : ResumeFirst(i)
  \/ \E i \in 1..Len(tasks) : ResumeSecond(i)
  \/ ConcurrentTick

(***************************************************************************)
(* __init__.py: setup and unload of config entries                         *)
(* The config entries manager of the host calls async_setup_entry for an   *)
(* entry that is not loaded (never set up, unloaded, or whose last setup   *)
(* failed) and async_unload_entry for a loaded entry; an entry whose       *)
(* unload failed is called no more. Forwarding the entry to the platforms  *)
(* and unloading the platforms are the host's; forwarding completes, an    *)
(* unload of the platforms succeeds or fails.                              *)
(*   hass.data      : hass.data[DOMAIN], entry id -> hub (NoHub: no key)   *)
(*   hass.state     : the state of each entry                              *)
(*   hass.forwarded : the entry was forwarded to the platforms             *)
(*   hass.authed    : authenticate() returned true in the latest setup     *)
(*   hass.unloaded  : the entry was unloaded since its latest setup        *)
(*   hass.last      : the last call, its entry and what it raised/returned *)
(***************************************************************************)
Entries == {"entry-1", "entry-2", "entry-3"}

\* entry.data of each entry; entry-3 is a second entry for the account of entry-1
EntryData(e) ==
  [host |-> ConfiguredHost, api_key |-> IF e = "entry-2" THEN "key-2" ELSE "key-1"]

NoHub == PyNone

\* What async_setup_entry / async_unload_entry did: the new hass.data[DOMAIN],
\* whether the platforms were forwarded, the exception raised, the value returned
EntryResult(data, forwarded, exc, ret) ==
  [data |-> data, forwarded |-> forwarded, exc |-> exc, ret |-> ret]

\* async_setup_entry storing the hub before it authenticates (C22's mutant)
init_async_setup_entry_storefirst(data, e, ao) ==
  LET h == BaseAPIClient(EntryData(e).host, EntryData(e).api_key)
      a == authenticate(h, ao)
      stored == [data EXCEPT ![e] = h]
  IN  IF a.exc # "" THEN EntryResult(stored, FALSE, a.exc, FALSE)
      ELSE IF ~a.val.v THEN EntryResult(stored, FALSE, "InvalidAuth", FALSE)
      ELSE EntryResult(stored, TRUE, "", TRUE)

\* __init__.async_setup_entry(hass, entry), for outcome ao of the exchange of
\* authenticate()
init_async_setup_entry(data, e, ao) ==
  LET h == BaseAPIClient(EntryData(e).host, EntryData(e).api_key)
      a == authenticate(h, ao)
  IN  IF a.exc # "" THEN EntryResult(data, FALSE, a.exc, FALSE)
      ELSE IF ~a.val.v THEN EntryResult(data, FALSE, "InvalidAuth", FALSE)
      ELSE EntryResult([data EXCEPT ![e] = h], TRUE, "", TRUE)

\* __init__.async_unload_entry(hass, entry), for the result unload_ok of
\* async_unload_platforms
async_unload_entry(data, e, unload_ok) ==
  IF unload_ok THEN EntryResult([data EXCEPT ![e] = NoHub], FALSE, "", TRUE)
  ELSE EntryResult(data, TRUE, "", FALSE)

NoEntryCall == [op |-> "none", entry |-> "", exc |-> "", ret |-> FALSE, ao |-> ClientErr]

InitHass ==
  hass = [data |-> [e \in Entries |-> NoHub],
          state |-> [e \in Entries |-> "not_loaded"],
          forwarded |-> [e \in Entries |-> FALSE],
          authed |-> [e \in Entries |-> FALSE],
          unloaded |-> [e \in Entries |-> FALSE],
          last |-> NoEntryCall]

OthersUnchangedByEntry ==
  UNCHANGED <<hub, call, flow, entities, server, pos, upd, tasks>>

EntrySetup ==
  \E e \in Entries, ao \in FlowOutcomes(AuthBodies) :
    /\ hass.state[e] \in {"not_loaded", "setup_error"}
    /\ LET r == init_async_setup_entry(hass.data, e, ao)
           a == authenticate(BaseAPIClient(EntryData(e).host, EntryData(e).api_key), ao)
       IN  hass' = [data |-> r.data,
                    state |-> [hass.state EXCEPT
                                 ![e] = IF r.exc = "" /\ r.ret THEN "loaded"
                                        ELSE "setup_error"],
                    forwarded |-> [hass.forwarded EXCEPT ![e] = r.forwarded],
                    authed |-> [hass.authed EXCEPT
                                  ![e] = (a.exc = "" /\ a.val = PyBool(TRUE))],
                    unloaded |-> [hass.unloaded EXCEPT ![e] = FALSE],
                    last |-> [op |-> "setup", entry |-> e, exc |-> r.exc,
                              ret |-> r.ret, ao |-> ao]]
    /\ OthersUnchangedByEntry

EntryUnload ==
  \E e \in Entries, unload_ok \in BOOLEAN :
    /\ hass.state[e] = "loaded"
    /\ LET r == async_unload_entry(hass.data, e, unload_ok)
       IN  hass' = [hass EXCEPT
                      !.data = r.data,
                      !.state[e] = IF r.ret THEN "not_loaded" ELSE "failed_unload",
                      !.forwarded[e] = r.forwarded,
                      !.unloaded[e] = r.ret,
                      !.last = [op |-> "unload", entry |-> e, exc |-> r.exc,
                                ret |-> r.ret, ao |-> ClientErr]]
    /\ OthersUnchangedByEntry

NextEntry ==
  \/ EntrySetup
  \/ EntryUnload

(***************************************************************************)
(* Specifications                                                          *)
(*   SpecClient : the hub's operations, one call after another             *)
(*   SpecFlow   : the user step of the config flow                         *)
(*   SpecSetup  : sensor setup against every people list                   *)
(*   SpecSensor : sensor setup followed by polling ticks                   *)
(*   SpecEntry  : setups and unloads of three config entries               *)
(*   SpecConcurrent : sensor setup followed by ticks whose refreshes run   *)
(*                concurrently                                             *)
(***************************************************************************)
IdleServer == Server(ClientErr, ClientErr, ClientErr, Uniform(ClientErr))
OneHub == hub = BaseAPIClient(ConfiguredHost, "key-1")

InitClient == InitHub /\ InitCall /\ InitFlow /\ InitSensors /\ InitHass /\ server = IdleServer
InitFlowSpec == OneHub /\ InitCall /\ InitFlow /\ InitSensors /\ InitHass /\ server = IdleServer
InitSetup == InitHub /\ InitCall /\ InitFlow /\ InitSensors /\ InitHass /\ server \in SetupServers
InitSensor == OneHub /\ InitCall /\ InitFlow /\ InitSensors /\ InitHass /\ server \in PollServers

SpecClient == InitClient /\ [][NextClient]_vars
SpecFlow == InitFlowSpec /\ [][NextFlow]_vars
SpecSetup == InitSetup /\ [][NextSetup]_vars
SpecSensor == InitSensor /\ [][NextSensor]_vars

InitEntry == OneHub /\ InitCall /\ InitFlow /\ InitSensors /\ InitHass /\ server = IdleServer
SpecEntry == InitEntry /\ [][NextEntry]_vars

InitConcurrent ==
  OneHub /\ InitCall /\ InitFlow /\ InitSensors /\ InitHass /\ server \in ConcurrentServers
SpecConcurrent == InitConcurrent /\ [][NextConcurrent]_vars

Init == InitSensor
Next == NextSensor
Spec == SpecSensor


(***************************************************************************)
(* Properties of the hub's operations (SpecClient)                         *)
(***************************************************************************)
\* The last operation received an HTTP response / went through _make_request
Answered == call.op # "none" /\ call.o.kind = "Response"
UsesPrimitive == call.r.prim # "n/a"
SoftFailing == {"get_asset_info", "download_asset"}

\* C2, as stated: every operation raises ApiError on every response whose status
\* is outside 200..299, and the shared request primitive does not raise ApiError
\* on a response inside 200..299 with a decodable JSON body.
C2_ApiErrorIffNon2xx ==
  Answered =>
    /\ (~Is2xx(call.o.status) => call.r.exc = "ApiError")
    /\ (Is2xx(call.o.status) /\ call.o.body.t \in {"obj", "list"} /\ UsesPrimitive
          => call.r.prim # "ApiError")

\* C2, amended: the line is drawn at status 200, not at 200..299. On every
\* response whose status is not 200 the shared primitive raises ApiError; every
\* operation built on it re-raises that ApiError, except get_asset_info, which
\* returns None; download_asset, which does not use the primitive, returns None.
\* On a response with status 200 the primitive does not raise ApiError.
C2_ApiErrorIffNot200 ==
  Answered =>
    /\ (call.o.status # 200 /\ UsesPrimitive => call.r.prim = "ApiError")
    /\ (call.o.status # 200 /\ call.op \notin SoftFailing => call.r.exc = "ApiError")
    /\ (call.o.status # 200 /\ call.op \in SoftFailing
          => call.r.exc = "" /\ call.r.val.t = "none")
    /\ (call.o.status = 200 /\ UsesPrimitive => call.r.prim # "ApiError")

\* C2's case: get_people met a 404 and raised ApiError.
C2_Witness ==
  /\ call.op = "get_people"
  /\ Answered
  /\ call.o.status = 404
  /\ call.r.exc = "ApiError"

Rejected(o) ==
  /\ o.kind = "Response"
  /\ \/ o.status = 401
     \/ /\ o.status = 200
        /\ o.ctype = JsonType
        /\ o.body.t = "obj"
        /\ "authStatus" \in DOMAIN o.body.v
        /\ ~o.body.v["authStatus"]

\* C4: authenticate() returns false whenever the server rejects the credentials,
\* and raises nothing but CannotConnect, and that only on a transport failure.
C4_AuthRejectionReturnsFalse ==
  call.op = "authenticate" =>
    /\ (Rejected(call.o) =>
          call.r.exc = "" /\ call.r.val.t = "bool" /\ call.r.val.v = FALSE)
    /\ (call.r.exc # "" =>
          call.r.exc = "CannotConnect" /\ call.o \in TransportFailures)

\* C5: for every response, download_asset returns None and raises nothing when
\* the status is outside 200..299 or the content type is not an allowed image
\* type, and returns bytes (the body's) only when the status is in 200..299 and
\* the content type is allowed.
C5_DownloadSoftFailure ==
  (call.op = "download_asset" /\ Answered) =>
    /\ (~Is2xx(call.o.status) \/ call.o.ctype \notin {"image/png", "image/jpeg"}
          => call.r.exc = "" /\ call.r.val.t = "none")
    /\ (call.r.val.t = "bytes" =>
          /\ Is2xx(call.o.status)
          /\ call.o.ctype \in {"image/png", "image/jpeg"}
          /\ call.r.val.v = call.o.body.v)

\* C5's case: a 200 response of type application/pdf, answered with None.
C5_Witness ==
  /\ call.op = "download_asset"
  /\ Answered
  /\ call.o.status = 200
  /\ call.o.ctype = "application/pdf"
  /\ call.r.exc = ""
  /\ call.r.val.t = "none"

HasHeader(req, name, value) ==
  name \in DOMAIN req.headers /\ req.headers[name] = value

\* C10, as stated: every request of every operation carries x-api-key with the
\* configured key and Accept: application/json.
C10_EveryRequestHasBothHeaders ==
  \A i \in 1..Len(call.r.reqs) :
    /\ HasHeader(call.r.reqs[i], "x-api-key", hub.api_key)
    /\ HasHeader(call.r.reqs[i], "Accept", "application/json")

\* C10, amended: every request carries x-api-key with the configured key; the
\* requests of the operations built on the shared primitive also carry
\* Accept: application/json, the request of download_asset carries no Accept
\* header.
C10_ApiKeyAlwaysAcceptButDownload ==
  \A i \in 1..Len(call.r.reqs) :
    /\ HasHeader(call.r.reqs[i], "x-api-key", hub.api_key)
    /\ call.op # "download_asset" =>
         HasHeader(call.r.reqs[i], "Accept", "application/json")
    /\ call.op = "download_asset" => "Accept" \notin DOMAIN call.r.reqs[i].headers

\* C10's case: download_asset issued its request, with the key and no Accept.
C10_Witness ==
  /\ call.op = "download_asset"
  /\ Len(call.r.reqs) = 1
  /\ HasHeader(call.r.reqs[1], "x-api-key", hub.api_key)
  /\ "Accept" \notin DOMAIN call.r.reqs[1].headers


(***************************************************************************)
(* Properties of the config flow's user step (SpecFlow)                    *)
(***************************************************************************)
\* The normalized form of the host lacks a scheme or a network location.
Malformed(host) ==
  \/ urlparse(url_normalize(host)).scheme = <<>>
  \/ urlparse(url_normalize(host)).netloc = <<>>

\* C8: for every submitted host whose normalized form lacks a scheme or a
\* network location, the step reports invalid_url, has issued no HTTP request
\* and constructed no client, and creates no config entry.
C8_MalformedHostFailsBeforeAnyRequest ==
  (flow.submitted /\ Malformed(flow.input.host)) =>
    /\ flow.result = "form"
    /\ flow.errors = "invalid_url"
    /\ flow.reqs = <<>>
    /\ flow.hubs = 0

\* C8's case: the host nas:2283 (a scheme, no network location) was submitted
\* and refused as invalid_url.
C8_Witness ==
  /\ flow.submitted
  /\ flow.input.host = HostBarePort
  /\ Malformed(flow.input.host)
  /\ flow.errors = "invalid_url"
  /\ flow.reqs = <<>>


(***************************************************************************)
(* Properties of sensor setup (SpecSetup)                                  *)
(***************************************************************************)
\* Sensor setup has run and its people fetch returned a people list.
SetupGotPeople ==
  /\ upd.op = "setup"
  /\ server.people.kind = "Response"
  /\ server.people.status = 200
  /\ server.people.ctype = JsonType
  /\ server.people.body.t = "obj"
  /\ "people" \in DOMAIN server.people.body.v

\* The persons of a list that have a non-empty name, in the list's order
Named(people) ==
  SelectSeq(people, LAMBDA q : "name" \in DOMAIN q /\ q["name"] # <<>>)

\* 'person_' + the name with spaces replaced by underscores and letters
\* lower-cased + '_assets'
KeyOfName(name) ==
  <<"p","e","r","s","o","n","_">> \o
  [i \in 1..Len(name) |-> IF name[i] = " " THEN "_" ELSE LowerChar(name[i])] \o
  <<"_","a","s","s","e","t","s">>

KeyJaneDoe == <<"p","e","r","s","o","n","_","j","a","n","e","_","d","o","e","_","a","s","s","e","t","s">>
KeyJohnRoe == <<"p","e","r","s","o","n","_","j","o","h","n","_","r","o","e","_","a","s","s","e","t","s">>

\* C6: for every people list returned at setup, the registered sensors are the
\* six static ones followed by exactly one per-person sensor for each person of
\* the list that has a non-empty name, in the list's order, with the key
\* person_<normalized name>_assets and the un-normalized name recorded; persons
\* without a name get none. The list [Jane Doe, John Roe] gives the keys
\* person_jane_doe_assets and person_john_roe_assets.
C6_DynamicDiscovery ==
  SetupGotPeople =>
    LET named == Named(server.people.body.v["people"])
    IN  /\ Len(entities) = Len(SENSORS) + Len(named)
        /\ \A i \in 1..Len(SENSORS) :
             entities[i].key = SENSORS[i] /\ entities[i].original_name = PyNone
        /\ \A j \in 1..Len(named) :
             /\ entities[Len(SENSORS) + j].key = KeyOfName(named[j]["name"])
             /\ entities[Len(SENSORS) + j].original_name = PyStr(named[j]["name"])
        /\ (Len(named) = 2 /\ named[1]["name"] = JaneDoe /\ named[2]["name"] = JohnRoe)
             => /\ entities[Len(SENSORS) + 1].key = KeyJaneDoe
                /\ entities[Len(SENSORS) + 2].key = KeyJohnRoe

\* C6's case: setup against [Jane Doe, John Roe] registered eight sensors, the
\* last two keyed person_jane_doe_assets and person_john_roe_assets.
C6_Witness ==
  /\ SetupGotPeople
  /\ server.people.body.v["people"] = <<Person(1, JaneDoe), Person(2, JohnRoe)>>
  /\ Len(entities) = 8
  /\ entities[7].key = KeyJaneDoe
  /\ entities[7].original_name = PyStr(JaneDoe)
  /\ entities[8].key = KeyJohnRoe


(***************************************************************************)
(* Properties of polling (SpecSensor)                                      *)
(***************************************************************************)
\* The endpoint fails: no response, or a status outside 200..299.
EndpointFails(o) == o.kind # "Response" \/ ~Is2xx(o.status)

\* The endpoint succeeds: it answers 200 with a JSON object.
EndpointSucceeds(o) ==
  /\ o.kind = "Response"
  /\ o.status = 200
  /\ o.ctype = JsonType
  /\ o.body.t = "obj"

\* Sensor i has been refreshed in the current tick.
Refreshed(i) == upd.op = "update" /\ i <= pos

\* Every sensor has been refreshed in the current tick.
TickComplete == upd.op = "update" /\ pos = Len(entities)

\* The field of a successful answer, as a reading
FieldOf(o, field) == PyInt(o.body.v[field])

\* C1: in a tick in which the people endpoint fails and the asset-statistics
\* endpoint succeeds with and without the favorite filter, once every sensor has
\* been refreshed: total_images, total_videos, total_assets and favorite_assets
\* hold the fetched fields, total_people, hidden_people and every per-person
\* sensor hold None, and every refresh returned (none raised).
C1_PerReadingIsolation ==
  (/\ TickComplete
   /\ EndpointFails(server.people)
   /\ EndpointSucceeds(server.stats)
   /\ EndpointSucceeds(server.fav)
   /\ {"images", "videos", "total"} \subseteq DOMAIN server.stats.body.v
   /\ "total" \in DOMAIN server.fav.body.v)
  =>
    /\ entities[1].state = FieldOf(server.stats, "images")
    /\ entities[2].state = FieldOf(server.stats, "videos")
    /\ entities[3].state = FieldOf(server.stats, "total")
    /\ entities[4].state = FieldOf(server.fav, "total")
    /\ \A i \in 5..Len(entities) : entities[i].state = PyNone
    /\ upd.done = Len(entities)

\* C1's case: a complete tick with the people endpoint refusing connections and
\* the statistics answered; a per-person sensor exists and holds None while
\* total_images holds 120.
C1_Witness ==
  /\ TickComplete
  /\ server.people = ClientErr
  /\ EndpointSucceeds(server.stats)
  /\ EndpointSucceeds(server.fav)
  /\ Len(entities) > Len(SENSORS)
  /\ entities[Len(entities)].state = PyNone
  /\ entities[1].state = PyInt(120)
  /\ entities[4].state = PyInt(5)
  /\ upd.done = Len(entities)

\* The last action refreshed a per-person sensor against a people snapshot.
PersonRefreshed ==
  /\ upd.op = "update"
  /\ upd.idx > Len(SENSORS)
  /\ EndpointSucceeds(server.people)
  /\ "people" \in DOMAIN server.people.body.v

Snapshot == server.people.body.v["people"]
RecordedName == entities[upd.idx].original_name.v

PersonStatsRequested ==
  \E i \in 1..Len(upd.reqs) : upd.reqs[i].path = "/api/people/{id}/statistics"

\* C7, as stated: when the snapshot of the tick holds no person named N (the
\* name recorded at setup), the refresh sets the sensor to None, requests no
\* person statistics and raises nothing.
C7_NoPersonNamedExactly ==
  (/\ PersonRefreshed
   /\ \A i \in 1..Len(Snapshot) : DictGet(Snapshot[i], "name", <<>>) # RecordedName)
  =>
    /\ entities[upd.idx].state = PyNone
    /\ ~PersonStatsRequested
    /\ upd.exc = ""

\* C7, amended: when the snapshot of the tick holds no person whose name equals
\* N ignoring letter case, the refresh sets the sensor to None, requests no
\* person statistics and raises nothing.
C7_NoPersonNamedIgnoringCase ==
  (/\ PersonRefreshed
   /\ \A i \in 1..Len(Snapshot) :
        StrLower(DictGet(Snapshot[i], "name", <<>>)) # StrLower(RecordedName))
  =>
    /\ entities[upd.idx].state = PyNone
    /\ ~PersonStatsRequested
    /\ upd.exc = ""

\* C7's case: the sensor set up for Jane Doe is refreshed against a snapshot
\* whose only person is John Roe.
C7_Witness ==
  /\ PersonRefreshed
  /\ RecordedName = JaneDoe
  /\ Snapshot = <<Person(1, JohnRoe)>>
  /\ entities[upd.idx].state = PyNone
  /\ ~PersonStatsRequested
  /\ upd.exc = ""

\* C9: a static sensor refreshed in this tick from a successful answer holds the
\* answer's field: images, videos and total of the asset statistics, total of
\* the favorite statistics, total and hidden of the people snapshot. Statistics
\* of 120 images, 8 videos and total 130 give 120, 8 and 130.
C9_StaticReadingsEqualFields ==
  /\ \A i \in 1..3 :
       (/\ Refreshed(i)
        /\ EndpointSucceeds(server.stats)
        /\ <<"images", "videos", "total">>[i] \in DOMAIN server.stats.body.v)
       => entities[i].state = FieldOf(server.stats, <<"images", "videos", "total">>[i])
  /\ (Refreshed(4) /\ EndpointSucceeds(server.fav)
        /\ "total" \in DOMAIN server.fav.body.v)
       => entities[4].state = FieldOf(server.fav, "total")
  /\ \A i \in 5..6 :
       (/\ Refreshed(i)
        /\ EndpointSucceeds(server.people)
        /\ <<"total", "hidden">>[i - 4] \in DOMAIN server.people.body.v)
       => entities[i].state = FieldOf(server.people, <<"total", "hidden">>[i - 4])
  /\ (Refreshed(3) /\ server.stats = JsonOk([images |-> 120, videos |-> 8, total |-> 130]))
       => /\ entities[1].state = PyInt(120)
          /\ entities[2].state = PyInt(8)
          /\ entities[3].state = PyInt(130)

\* C9's case: the six static sensors refreshed from statistics 120/8/130, a
\* favorite total of 5 and a people snapshot with total 5 and hidden 3.
C9_Witness ==
  /\ Refreshed(6)
  /\ server.stats = JsonOk([images |-> 120, videos |-> 8, total |-> 130])
  /\ EndpointSucceeds(server.fav)
  /\ EndpointSucceeds(server.people)
  /\ entities[1].state = PyInt(120)
  /\ entities[2].state = PyInt(8)
  /\ entities[3].state = PyInt(130)
  /\ entities[4].state = PyInt(5)
  /\ entities[5].state = PyInt(5)
  /\ entities[6].state = PyInt(3)


(***************************************************************************)
(* Further properties of the hub's operations (SpecClient)                 *)
(***************************************************************************)
\* The server accepts the credentials: 200, JSON, authStatus true.
AcceptsCredentials(o) ==
  /\ o.kind = "Response"
  /\ o.status = 200
  /\ o.ctype = JsonType
  /\ o.body = JObj([authStatus |-> TRUE])

\* C11: every step leaves the client (host, API key, headers) and every sensor
\* as they were; an authenticate() call that the server accepts returns true,
\* whatever call came before it; and an authenticate() call that follows an
\* authenticate() call answered the same way has the same result.
C11_AuthenticateIdempotent ==
  [][/\ hub' = hub
     /\ entities' = entities
     /\ (call'.op = "authenticate" /\ AcceptsCredentials(call'.o))
          => (call'.r.exc = "" /\ call'.r.val = PyBool(TRUE))
     /\ (call.op = "authenticate" /\ call'.op = "authenticate" /\ call'.o = call.o)
          => call'.r = call.r]_vars

\* C11's case: a second authenticate() call against the same accepting server
\* has returned true, with the client as constructed.
C11_Witness ==
  /\ call.op = "authenticate"
  /\ call.again
  /\ AcceptsCredentials(call.o)
  /\ call.r.val = PyBool(TRUE)
  /\ hub \in {BaseAPIClient(ConfiguredHost, k) : k \in ApiKeys}

\* The album answered with a list of assets.
AlbumAnswered ==
  /\ call.op = "list_album_images"
  /\ call.o.kind = "Response"
  /\ call.o.status = 200
  /\ call.o.ctype = JsonType
  /\ call.o.body.t = "obj"
  /\ "assets" \in DOMAIN call.o.body.v

AlbumAssets == call.o.body.v["assets"]

\* The positions of the image assets of the album, and the position of the k-th
ImagePositions == {i \in 1..Len(AlbumAssets) : AlbumAssets[i].type = "IMAGE"}
KthImage(k) ==
  CHOOSE i \in ImagePositions : Cardinality({j \in ImagePositions : j <= i}) = k

\* C12: list_album_images of an album answered with assets returns a list with
\* as many entries as the album has image assets, the k-th entry being the
\* album's k-th image asset, unchanged.
C12_AlbumImagesFiltered ==
  AlbumAnswered =>
    /\ call.r.exc = ""
    /\ call.r.val.t = "list"
    /\ Len(call.r.val.v) = Cardinality(ImagePositions)
    /\ \A k \in 1..Len(call.r.val.v) : call.r.val.v[k] = AlbumAssets[KthImage(k)]

\* C12's case: an album of a video followed by images 3 and 1 yields images 3
\* and 1, in that order.
C12_Witness ==
  /\ AlbumAnswered
  /\ AlbumAssets = <<Video(2), Image(3), Image(1)>>
  /\ call.r.val = JList(<<Image(3), Image(1)>>)


(***************************************************************************)
(* Further properties of polling (SpecSensor)                              *)
(***************************************************************************)
\* The person the snapshot of the tick holds for sensor i (0 when none, or when
\* there is no snapshot)
PersonFor(i) ==
  IF EndpointSucceeds(server.people) /\ "people" \in DOMAIN server.people.body.v
       /\ entities[i].original_name.t = "str"
  THEN FindPerson(server.people.body.v["people"], entities[i].original_name.v)
  ELSE 0

\* The answer of the person-statistics endpoint for the person the snapshot
\* holds for sensor i
PersonStatsFor(i) ==
  server.pstats[server.people.body.v["people"][PersonFor(i)].id]

\* The answers the refresh of sensor i depends on
AnswersFor(i) ==
  IF i <= 3 THEN <<server.stats>>
  ELSE IF i = 4 THEN <<server.fav>>
  ELSE IF i <= 6 THEN <<server.people>>
  ELSE IF PersonFor(i) = 0 THEN <<server.people>>
  ELSE <<server.people, PersonStatsFor(i)>>

\* A remote call of the refresh of sensor i fails in this tick.
FetchFails(i) ==
  \E k \in 1..Len(AnswersFor(i)) : ~EndpointSucceeds(AnswersFor(i)[k])

\* C13: whenever a remote call made by the refresh of a sensor fails (no
\* connection, a timeout, an error status), the sensor refreshed in this tick
\* holds None, and every refresh of the tick so far returned without raising.
C13_FailureContained ==
  /\ \A i \in 1..Len(entities) :
       (Refreshed(i) /\ FetchFails(i)) => entities[i].state = PyNone
  /\ upd.op = "update" => (upd.exc = "" /\ upd.done = pos)

\* C13's case: total_assets has been refreshed while the statistics endpoint
\* answers 500 and the favorite statistics time out; both sensors hold None and
\* the four refreshes returned.
C13_Witness ==
  /\ Refreshed(4)
  /\ server.stats = Resp(500, JsonType, ErrorText)
  /\ server.fav = TimeoutErr
  /\ entities[3].state = PyNone
  /\ entities[4].state = PyNone
  /\ upd.idx = 4
  /\ upd.exc = ""
  /\ upd.done = 4


\* The path of the first request a refresh of sensor i makes
FirstPathFor(i) ==
  IF i <= 4 THEN "/api/assets/statistics" ELSE "/api/people"

\* Sensor i as it is before its first refresh
Pending(i) == [entities[i] EXCEPT !.state = PyNone]

\* C14: before the first refresh every sensor holds None; every refresh issues
\* its request, whatever the sensor held; a refreshed sensor whose fetch
\* succeeded (and, for a person sensor, found its person) holds a number; and
\* the value a refreshed sensor holds is the value a sensor that never held
\* anything obtains from the answers of this tick.
C14_StateDependsOnTickOnly ==
  /\ upd.op = "setup" => \A i \in 1..Len(entities) : entities[i].state = PyNone
  /\ upd.op = "update" =>
       (Len(upd.reqs) >= 1 /\ upd.reqs[1].path = FirstPathFor(upd.idx))
  /\ \A i \in 1..Len(entities) :
       Refreshed(i) =>
         /\ entities[i].state = async_update(hub, Pending(i), server).state
         /\ (~FetchFails(i) /\ (i <= Len(SENSORS) \/ PersonFor(i) # 0))
              => entities[i].state.t = "int"

\* C14's case: total_images holds 120 after its refresh in this tick while
\* total_videos, not yet refreshed, still holds None from the tick before, a
\* complete tick (favorite_assets holds its 5) in which the statistics fetch
\* failed: total_images went from None to 120.
C14_Witness ==
  /\ upd.op = "update"
  /\ pos = 1
  /\ entities[1].state = PyInt(120)
  /\ entities[2].state = PyNone
  /\ entities[4].state = PyInt(5)


\* The answer is a JSON object without the field.
Lacks(o, field) == EndpointSucceeds(o) /\ field \notin DOMAIN o.body.v

\* C17: a statistics or people call answered with a JSON object does not raise,
\* whichever fields the object lacks; a refreshed sensor whose field is missing
\* from such an answer holds 0 (images, videos and total of the asset
\* statistics, total of the favorite statistics, total and hidden of the people
\* snapshot, assets of the person statistics), a refreshed sensor whose fetch
\* failed holds None, and no refresh raises.
C17_MissingFieldYieldsZero ==
  /\ EndpointSucceeds(server.stats) => get_asset_statistics(hub, server.stats).exc = ""
  /\ EndpointSucceeds(server.fav) => get_favorite_statistics(hub, server.fav).exc = ""
  /\ EndpointSucceeds(server.people) => get_people(hub, server.people).exc = ""
  /\ \A id \in PersonIds :
       EndpointSucceeds(server.pstats[id]) =>
         get_person_statistics(hub, id, server.pstats[id]).exc = ""
  /\ upd.op = "update" => upd.exc = ""
  /\ \A i \in 1..Len(entities) :
       Refreshed(i) =>
         /\ (i <= 3 /\ Lacks(server.stats, <<"images", "videos", "total">>[i]))
              => entities[i].state = PyInt(0)
         /\ (i = 4 /\ Lacks(server.fav, "total")) => entities[i].state = PyInt(0)
         /\ (i \in 5..6 /\ Lacks(server.people, <<"total", "hidden">>[i - 4]))
              => entities[i].state = PyInt(0)
         /\ (i > 6 /\ PersonFor(i) # 0 /\ Lacks(PersonStatsFor(i), "assets"))
              => entities[i].state = PyInt(0)
         /\ FetchFails(i) => entities[i].state = PyNone

\* C17's case: a complete tick in which every answer is a JSON object without
\* its numeric fields; the six static sensors and a person sensor hold 0.
C17_Witness ==
  /\ TickComplete
  /\ Lacks(server.stats, "images")
  /\ Lacks(server.stats, "videos")
  /\ Lacks(server.stats, "total")
  /\ Lacks(server.fav, "total")
  /\ Lacks(server.people, "total")
  /\ Lacks(server.people, "hidden")
  /\ \A id \in PersonIds : Lacks(server.pstats[id], "assets")
  /\ Len(entities) > Len(SENSORS)
  /\ PersonFor(Len(entities)) # 0
  /\ \A i \in 1..Len(entities) : entities[i].state = PyInt(0)

\* The descriptor of a sensor: everything but its value
Descriptor(e) == [key |-> e.key, unique_id |-> e.unique_id,
                  original_name |-> e.original_name]

\* C18: once setup has run, no step adds or removes a sensor or changes the key,
\* the unique id or the recorded original name of one, whatever people the
\* server lists.
C18_ReadingSetFixed ==
  [][upd.op # "none" =>
       /\ Len(entities') = Len(entities)
       /\ \A i \in 1..Len(entities) :
            Descriptor(entities'[i]) = Descriptor(entities[i])]_vars

\* C18's case: setup found nobody, the server now lists two persons, a complete
\* tick has run and there are still the six static sensors only.
C18_Witness ==
  /\ TickComplete
  /\ EndpointSucceeds(server.people)
  /\ "people" \in DOMAIN server.people.body.v
  /\ server.people.body.v["people"] = <<Person(1, JaneDoe), Person(2, JaneDoeUpper)>>
  /\ Len(entities) = Len(SENSORS)
  /\ entities[5].state = PyInt(5)

\* The persons of the snapshot whose name equals the recorded name ignoring
\* letter case
Namesakes ==
  {j \in 1..Len(Snapshot) :
     StrLower(DictGet(Snapshot[j], "name", <<>>)) = StrLower(RecordedName)}

\* C20: the refresh of a person sensor requests the people snapshot; when the
\* snapshot holds a person whose name equals the recorded name ignoring letter
\* case, it then requests the person statistics with the id that person has in
\* this snapshot, and the sensor holds the assets field of the answer, or None
\* when the person-statistics request fails.
C20_PersonReadingFollowsCurrentId ==
  (upd.op = "update" /\ upd.idx > Len(SENSORS)) =>
    /\ Len(upd.reqs) >= 1
    /\ upd.reqs[1].path = "/api/people"
    /\ (PersonRefreshed /\ Namesakes # {}) =>
         /\ Len(upd.reqs) = 2
         /\ upd.reqs[2].path = "/api/people/{id}/statistics"
         /\ \E j \in Namesakes :
              /\ upd.reqs[2].id = Snapshot[j].id
              /\ Lacks(server.pstats[Snapshot[j].id], "assets")
                   \/ ~EndpointSucceeds(server.pstats[Snapshot[j].id])
                   \/ entities[upd.idx].state
                        = FieldOf(server.pstats[Snapshot[j].id], "assets")
              /\ ~EndpointSucceeds(server.pstats[Snapshot[j].id])
                   => entities[upd.idx].state = PyNone

\* C20's case: setup listed Jane Doe (id 1) and JANE DOE (id 2); the snapshot of
\* this tick lists a nameless person and Jane Doe with id 2; the refresh of
\* Jane Doe's sensor requested the statistics of id 2 and holds the 9 assets of
\* that person.
C20_Witness ==
  /\ PersonRefreshed
  /\ Len(entities) = 8
  /\ upd.idx = 7
  /\ entities[7].original_name = PyStr(JaneDoe)
  /\ entities[8].original_name = PyStr(JaneDoeUpper)
  /\ Snapshot = <<Nameless(1), Person(2, JaneDoe)>>
  /\ Len(upd.reqs) = 2
  /\ upd.reqs[2].id = 2
  /\ entities[7].state = PyInt(9)

(***************************************************************************)
(* Further properties of sensor setup (SpecSetup)                          *)
(***************************************************************************)
\* C15: after setup the keys of the registered sensors are pairwise distinct,
\* and so are their unique ids, whatever people list the server returned.
C15_KeysPairwiseDistinct ==
  upd.op = "setup" =>
    \A i, j \in 1..Len(entities) :
      i # j => /\ entities[i].key # entities[j].key
               /\ entities[i].unique_id # entities[j].unique_id

(***************************************************************************)
(* Further properties of the config flow (SpecFlow)                        *)
(***************************************************************************)
\* The answer is 200 with a JSON object.
JsonObjectAnswer(o) ==
  /\ o.kind = "Response"
  /\ o.status = 200
  /\ o.ctype = JsonType
  /\ o.body.t = "obj"

\* The server answers the credentials check with authStatus false or without it.
RejectsCredentials(o) ==
  /\ JsonObjectAnswer(o)
  /\ ~DictGet(o.body.v, "authStatus", FALSE)

\* A form with a well-formed host was submitted.
SubmittedWellFormed == flow.submitted /\ ~Malformed(flow.input.host)

\* C16: for a submitted form with a well-formed host, a connection failure of
\* either exchange is reported as cannot_connect, rejected credentials as
\* invalid_auth and every other failure of either exchange as unknown; a config
\* entry is created exactly when the host is well formed, the server accepted
\* the credentials and the user info was answered, the credentials check being
\* requested before the user info.
C16_SetupFailureClassification ==
  /\ flow.result = "create_entry" <=>
       (/\ SubmittedWellFormed
        /\ AcceptsCredentials(flow.ao)
        /\ JsonObjectAnswer(flow.uo))
  /\ SubmittedWellFormed =>
       /\ Len(flow.reqs) >= 1
       /\ flow.reqs[1].path = "/api/auth/validateToken"
       /\ Len(flow.reqs) = 2 => flow.reqs[2].path = "/api/users/me"
       /\ flow.errors =
            IF flow.ao.kind = "ClientError" THEN "cannot_connect"
            ELSE IF RejectsCredentials(flow.ao) THEN "invalid_auth"
            ELSE IF ~AcceptsCredentials(flow.ao) THEN "unknown"
            ELSE IF flow.uo.kind = "ClientError" THEN "cannot_connect"
            ELSE IF ~JsonObjectAnswer(flow.uo) THEN "unknown"
            ELSE ""


(***************************************************************************)
(* Properties of concurrent refreshes (SpecConcurrent)                     *)
(***************************************************************************)
\* C19: however the refreshes of a tick interleave, the value of every sensor
\* is the one its own refresh assigned last, and once the refresh of a sensor is
\* over in a tick the sensor holds what a refresh running alone obtains from
\* the answers of the tick.
C19_ConcurrentRefreshesIsolated ==
  upd.op = "setup" =>
    \A i \in 1..Len(entities) :
      /\ entities[i].state = tasks[i].own
      /\ tasks[i].pc = "done" =>
           entities[i].state = async_update(hub, entities[i], server).state

\* C19's case: the refresh of the person sensor awaits the person statistics and
\* the refresh of total_people its people answer, total_videos has not started,
\* and meanwhile total_images and hidden_people got their values 120 and 3.
C19_Witness ==
  /\ upd.op = "setup"
  /\ Len(entities) = 7
  /\ tasks[7].pc = "second"
  /\ tasks[5].pc = "first"
  /\ tasks[2].pc = "idle"
  /\ tasks[1].pc = "done"
  /\ tasks[6].pc = "done"
  /\ entities[1].state = PyInt(120)
  /\ entities[6].state = PyInt(3)


(***************************************************************************)
(* Properties of a failed discovery (SpecSensor)                           *)
(***************************************************************************)
\* Exactly the six static sensors are registered.
OnlyStaticSensors ==
  /\ Len(entities) = Len(SENSORS)
  /\ \A i \in 1..Len(SENSORS) :
       /\ entities[i].key = SENSORS[i]
       /\ entities[i].original_name = PyNone

\* C21: when the people fetch of sensor setup fails or is answered with
\* something that is not a JSON object, setup raises nothing, logs the failure
\* and registers exactly the six static sensors; and after such a setup there
\* are exactly the six static sensors in every later state, whatever the people
\* endpoint answers on later ticks.
C21_FailedDiscoveryIsContained ==
  /\ (upd.op = "setup" /\ ~EndpointSucceeds(server.people)) =>
       /\ upd.exc = ""
       /\ upd.logged # ""
       /\ OnlyStaticSensors
       /\ \A i \in 1..Len(entities) : entities[i].state = PyNone
  /\ (upd.op # "none" /\ upd.logged # "") => OnlyStaticSensors

\* C21's case: setup could not connect for the people fetch; in a later tick the
\* people endpoint lists Jane Doe and JANE DOE, every sensor has been refreshed,
\* total_people holds 5 and there are still the six static sensors only.
C21_Witness ==
  /\ TickComplete
  /\ upd.logged = "CannotConnect"
  /\ EndpointSucceeds(server.people)
  /\ "people" \in DOMAIN server.people.body.v
  /\ server.people.body.v["people"] = <<Person(2, JaneDoeUpper), Person(1, JaneDoe)>>
  /\ OnlyStaticSensors
  /\ entities[5].state = PyInt(5)

\* The positions of the snapshot whose person is named as sensor i ignoring
\* letter case
NamesakesOf(i) ==
  {j \in 1..Len(Snapshot) :
     StrLower(DictGet(Snapshot[j], "name", <<>>))
       = StrLower(entities[i].original_name.v)}

\* The first of a non-empty set of positions
FirstOf(S) == CHOOSE j \in S : \A k \in S : j <= k

\* Sensors i and j are per-person sensors whose recorded names differ at most
\* in letter case.
SameNameIgnoringCase(i, j) ==
  /\ i > Len(SENSORS)
  /\ j > Len(SENSORS)
  /\ StrLower(entities[i].original_name.v) = StrLower(entities[j].original_name.v)

\* C23: when the people snapshot holds one or more persons whose name equals
\* the recorded name of a person sensor ignoring letter case, the refresh of
\* the sensor requests the statistics of the first of them in snapshot order
\* and the sensor holds the assets of that person (None when that request
\* fails); so two refreshed person sensors whose recorded names differ only in
\* letter case hold the same value, that of the same person.
C23_FirstNamesakeWins ==
  /\ (PersonRefreshed /\ NamesakesOf(upd.idx) # {}) =>
       /\ Len(upd.reqs) = 2
       /\ upd.reqs[2].path = "/api/people/{id}/statistics"
       /\ upd.reqs[2].id = Snapshot[FirstOf(NamesakesOf(upd.idx))].id
  /\ \A i \in 1..Len(entities) :
       (/\ Refreshed(i)
        /\ i > Len(SENSORS)
        /\ EndpointSucceeds(server.people)
        /\ "people" \in DOMAIN server.people.body.v
        /\ NamesakesOf(i) # {}) =>
         LET o == server.pstats[Snapshot[FirstOf(NamesakesOf(i))].id]
         IN  entities[i].state =
               IF ~EndpointSucceeds(o) THEN PyNone
               ELSE IF "assets" \in DOMAIN o.body.v THEN FieldOf(o, "assets")
               ELSE PyInt(0)
  /\ \A i, j \in 1..Len(entities) :
       (Refreshed(i) /\ Refreshed(j) /\ SameNameIgnoringCase(i, j)) =>
         entities[i].state = entities[j].state

\* C23's case: setup created sensors for Jane Doe (id 1) and JANE DOE (id 2);
\* in a tick whose snapshot lists JANE DOE (id 2) before Jane Doe (id 1) both
\* sensors have been refreshed, the last request asked for id 2, and both hold
\* the 9 assets of id 2 rather than the 7 of id 1.
C23_Witness ==
  /\ TickComplete
  /\ Len(entities) = 8
  /\ entities[7].original_name = PyStr(JaneDoe)
  /\ entities[8].original_name = PyStr(JaneDoeUpper)
  /\ EndpointSucceeds(server.people)
  /\ "people" \in DOMAIN server.people.body.v
  /\ Snapshot = <<Person(2, JaneDoeUpper), Person(1, JaneDoe)>>
  /\ Cardinality(NamesakesOf(8)) = 2
  /\ upd.idx = 8
  /\ upd.reqs[2].id = 2
  /\ entities[7].state = PyInt(9)
  /\ entities[8].state = PyInt(9)


(***************************************************************************)
(* Properties of the entry lifecycle (SpecEntry)                           *)
(***************************************************************************)
\* authenticate() of the last setup returned false or raised.
LastAuthRefused ==
  LET a == authenticate(BaseAPIClient(EntryData(hass.last.entry).host,
                                      EntryData(hass.last.entry).api_key),
                        hass.last.ao)
  IN  a.exc # "" \/ a.val # PyBool(TRUE)

\* C22: hass.data[DOMAIN] holds a hub for an entry exactly when authenticate()
\* returned true in the latest setup of the entry and the entry was not
\* unloaded since, and that hub is built from the entry's host and API key; a
\* setup whose authenticate() returned false or raised has raised, stored no hub
\* and forwarded no platform; a failed unload leaves the hub in place.
C22_RegistryFollowsLifecycle ==
  /\ \A e \in Entries :
       /\ hass.data[e] # NoHub <=> (hass.authed[e] /\ ~hass.unloaded[e])
       /\ hass.data[e] # NoHub =>
            hass.data[e] = BaseAPIClient(EntryData(e).host, EntryData(e).api_key)
  /\ (hass.last.op = "setup" /\ LastAuthRefused) =>
       /\ hass.last.exc # ""
       /\ hass.data[hass.last.entry] = NoHub
       /\ ~hass.forwarded[hass.last.entry]
  /\ (hass.last.op = "unload" /\ ~hass.last.ret) =>
       hass.data[hass.last.entry] # NoHub

\* C22's case: entry-1 was set up, unloaded, and set up again with rejected
\* credentials, so it has no hub; entry-2 was set up and its unload failed, so it
\* keeps its hub.
C22_Witness ==
  /\ hass.last.op = "setup"
  /\ hass.last.entry = "entry-1"
  /\ hass.last.exc = "InvalidAuth"
  /\ hass.data["entry-1"] = NoHub
  /\ hass.state["entry-2"] = "failed_unload"
  /\ hass.data["entry-2"] = BaseAPIClient(ConfiguredHost, "key-2")

====
